---- MODULE Spec2Model ----
(***************************************************************************)
(* A model of src/weather.py: the weather report driver                    *)
(* process_weather_files and the functions it calls.                       *)
(*                                                                         *)
(* Representation.                                                         *)
(*   - None is the empty tuple <<>>; an optional integer n is <<n>>.       *)
(*   - A CSV cell that is empty (pandas NaN) is <<>>; a number v is <<v>>. *)
(*   - A date cell is a record [t, form, y, m, d]: t = "nan" for an empty  *)
(*     cell, "int" for the integer fillna(0) puts there, "str" for text;   *)
(*     form = "ymd" is the text y-m-d (four digit year, one or two digit   *)
(*     month and day), form = "text" is any other text (a footer line such *)
(*     as "<!-- 0.189:0 -->", a repeated header).                          *)
(*   - A calendar date (a Timestamp) is <<y, m, d>>; NaT is <<>>; the      *)
(*     empty string the day accumulators start with is <<>> too.           *)
(*   - The readings are integers.  A mean is an exact rational            *)
(*     <<num, den>>, den > 0, in lowest terms.  A running extreme is       *)
(*     [inf, v]: inf = 0 for the reading v, 1 and -1 for the floats +inf   *)
(*     and -inf.  Floating point rounding is not modelled except where a   *)
(*     mean is printed to one decimal (Fmt1).                              *)
(***************************************************************************)
EXTENDS Integers, Sequences, FiniteSets, TLC

VARIABLES
    pathKind,          \* what folder_path names: "dir", "missing", "not_dir"
    fs,                \* the *.txt files of the folder, in glob order
    year, month, year_wise, chart,     \* arguments of process_weather_files
    pc,                \* "start", "loop", "report", "done"
    outcome,           \* "running", "success", "error" (uncaught exception)
    txt_files,         \* line 98
    pos,               \* position of the for loop of line 113 in txt_files
    df, df_filtered,   \* lines 114 and 119, of the last file visited
    all_data, all_highest_temps, all_lowest_temps, all_humidities,
    highest_temp, lowest_temp, most_humid,
    highest_temp_day, lowest_temp_day, most_humid_day,
    overall_avg,       \* lines 170-172: <<high, low, humidity>> or <<>>
    output             \* the lines printed, in order

vars == <<pathKind, fs, year, month, year_wise, chart, pc, outcome, txt_files,
          pos, df, df_filtered, all_data, all_highest_temps, all_lowest_temps,
          all_humidities, highest_temp, lowest_temp, most_humid,
          highest_temp_day, lowest_temp_day, most_humid_day, overall_avg,
          output>>

None == <<>>

NaN == <<>>

NaT == <<>>

----------------------------------------------------------------------------
(* Arithmetic: exact rationals for the floats of the program.              *)

Abs(n) == IF n < 0 THEN -n ELSE n

RECURSIVE Gcd(_, _)
Gcd(a, b) == IF b = 0 THEN a ELSE Gcd(b, a % b)

Rat(n, d) ==
    LET g == Gcd(Abs(n), d) IN <<n \div g, d \div g>>

RatOfInt(n) == <<n, 1>>

RatAdd(p, q) == Rat(p[1] * q[2] + q[1] * p[2], p[2] * q[2])

RatDivInt(p, k) == Rat(p[1], p[2] * k)

RECURSIVE SumInts(_)
SumInts(s) == IF s = <<>> THEN 0 ELSE Head(s) + SumInts(Tail(s))

RECURSIVE SumRats(_)
SumRats(s) == IF s = <<>> THEN RatOfInt(0) ELSE RatAdd(Head(s), SumRats(Tail(s)))

\* sum(xs) / len(xs), lines 170-172
MeanOfRats(s) == RatDivInt(SumRats(s), Len(s))

PosInf == [inf |-> 1, v |-> 0]

NegInf == [inf |-> -1, v |-> 0]

Fin(n) == [inf |-> 0, v |-> n]

\* a > b on floats that may be infinite
FloatGt(a, b) ==
    IF a.inf = 0 /\ b.inf = 0 THEN a.v > b.v ELSE a.inf > b.inf

FloatLt(a, b) == FloatGt(b, a)

\* f"{x:.1f}": the tenths the value is printed with.  A value exactly half
\* way between two tenths prints as either neighbour, depending on the
\* binary rounding of the float that holds it.
Fmt1(q) ==
    LET n20 == 20 * q[1]
        lo  == (10 * q[1]) \div q[2]
        tie == (n20 % q[2] = 0) /\ ((n20 \div q[2]) % 2 = 1)
        near == (n20 + q[2]) \div (2 * q[2])
    IN  IF tie THEN {lo, lo + 1} ELSE {near}

----------------------------------------------------------------------------
(* Sequences.                                                              *)

RECURSIVE TrueIdx(_, _)
\* the positions k >= i of the boolean sequence flags that hold TRUE, in order
TrueIdx(flags, i) ==
    IF i > Len(flags) THEN <<>>
    ELSE IF flags[i] THEN <<i>> \o TrueIdx(flags, i + 1)
         ELSE TrueIdx(flags, i + 1)

\* df[mask]: the rows of s at the positions where the boolean sequence
\* flags holds TRUE, in order
Mask(s, flags) ==
    LET idx == TrueIdx(flags, 1) IN [k \in 1..Len(idx) |-> s[idx[k]]]

RECURSIVE Concat(_)
\* pd.concat: the frames' rows one after the other, index labels kept
Concat(frames) ==
    IF frames = <<>> THEN <<>> ELSE Head(frames) \o Concat(Tail(frames))

----------------------------------------------------------------------------
(* load_weather_data, lines 12-19.                                         *)
(* A file is [kind, columns, rows].  kind "csv" is a delimited table with   *)
(* a header naming the date columns `columns` plus the three numeric        *)
(* columns; "parser_error" is content read_csv rejects with ParserError;    *)
(* "empty_file" is a file of no bytes (read_csv raises EmptyDataError) and  *)
(* "bad_encoding" is bytes that are not UTF-8 (UnicodeDecodeError): neither *)
(* is a ParserError, so line 17 does not catch them.                        *)

EmptyDataFrame == [columns |-> {}, rows |-> <<>>]

\* an empty numeric cell filled with 1
FillNumOne(c) == IF c = NaN THEN 1 ELSE c[1]

\* fillna(0) on one numeric cell, line 15
FillNum(c) == IF c = NaN THEN 0 ELSE c[1]

\* fillna(0) on one date cell, line 15: every NaN of the frame becomes 0
FillDate(c) == IF c.t = "nan" THEN [c EXCEPT !.t = "int"] ELSE c

\* read_csv then fillna(0): row k gets the index label k - 1
LoadRow(r, k) ==
    [idx   |-> k - 1,
     dates |-> [col \in DOMAIN r.dates |-> FillDate(r.dates[col])],
     maxT  |-> FillNum(r.maxT),
     minT  |-> FillNum(r.minT),
     hum   |-> FillNum(r.hum),
     Date  |-> NaT]

load_weather_data(file) ==
    CASE file.kind \in {"empty_file", "bad_encoding"} ->
            [raised |-> TRUE, printed |-> <<>>, df |-> EmptyDataFrame]
      [] file.kind = "parser_error" ->
            [raised |-> FALSE, printed |-> <<[kind |-> "ErrorParsing"]>>,
             df |-> EmptyDataFrame]
      [] OTHER ->
            [raised |-> FALSE, printed |-> <<>>,
             df |-> [columns |-> file.columns,
                     rows |-> [k \in 1..Len(file.rows) |-> LoadRow(file.rows[k], k)]]]

\* df.empty
IsEmpty(frame) == frame.rows = <<>>

----------------------------------------------------------------------------
(* get_date_column, lines 22-26.                                           *)

DateAliases == <<"PKT", "PKST", "GST">>

get_date_column(columns) ==
    LET hits == TrueIdx([k \in 1..Len(DateAliases) |-> DateAliases[k] \in columns], 1)
    IN  IF hits = <<>> THEN None ELSE <<DateAliases[hits[1]]>>

----------------------------------------------------------------------------
(* filter_by_year_and_month, lines 29-48.                                  *)

IsLeap(y) == (y % 4 = 0 /\ y % 100 # 0) \/ y % 400 = 0

DaysIn(y, m) ==
    IF m = 2 THEN (IF IsLeap(y) THEN 29 ELSE 28)
    ELSE IF m \in {4, 6, 9, 11} THEN 30 ELSE 31

\* Series.str.match(r'\d{4}-\d{1,2}-\d{1,2}') on one cell, line 36: TRUE or
\* FALSE for text, NaN for a cell that is not text (the 0 of fillna).  The
\* texts of the model either are a y-m-d date or do not start like one.
StrMatch(c) ==
    IF c.t # "str" THEN NaN ELSE <<c.form = "ymd">>

\* pd.to_datetime(errors='coerce') on one cell, line 39: NaT for text that
\* is no calendar date
ToDatetime(c) ==
    IF c.t = "str" /\ c.form = "ymd" /\ c.m \in 1..12 /\ c.d >= 1
       /\ c.d <= DaysIn(c.y, c.m)
    THEN <<c.y, c.m, c.d>> ELSE NaT

\* .dt.year == year and .dt.month == month: NaT compares unequal
YearIs(r, y) == r.Date # NaT /\ r.Date[1] = y

\* the month test taken on the day of the month
MonthIsDay(r, m) == r.Date # NaT /\ r.Date[3] = m

MonthIs(r, m) == r.Date # NaT /\ r.Date[2] = m

\* line 45
MonthGiven(m) == m # None

filter_by_year_and_month(frame, y, m) ==
    LET date_column == get_date_column(frame.columns) IN
    IF date_column = None
    THEN [raised |-> FALSE, printed |-> <<[kind |-> "NoDateColumn"]>>, rows |-> <<>>]
    ELSE
      LET col  == date_column[1]
          mask == [k \in 1..Len(frame.rows) |-> StrMatch(frame.rows[k].dates[col])]
      IN
      \* line 36: indexing with a mask that holds NaN raises ValueError (and
      \* .str on a column with no text at all raises AttributeError)
      IF \E k \in 1..Len(mask) : mask[k] = NaN
      THEN [raised |-> TRUE, printed |-> <<>>, rows |-> <<>>]
      ELSE
        LET d1 == Mask(frame.rows, [k \in 1..Len(mask) |-> mask[k][1]])
            d2 == [k \in 1..Len(d1) |->
                     [d1[k] EXCEPT !.Date = ToDatetime(d1[k].dates[col])]]
            d3 == Mask(d2, [k \in 1..Len(d2) |-> YearIs(d2[k], y)])
            d4 == IF MonthGiven(m)
                  THEN Mask(d3, [k \in 1..Len(d3) |-> MonthIs(d3[k], m[1])])
                  ELSE d3
        IN  [raised |-> FALSE, printed |-> <<>>, rows |-> d4]

----------------------------------------------------------------------------
(* find_extremes, lines 82-94, and calculate_averages, lines 71-79.        *)

Column(rows, f) == [k \in 1..Len(rows) |-> rows[k][f]]

\* Series.max() and Series.min() of a frame that has rows
MaxOf(rows, f) ==
    CHOOSE v \in {rows[k][f] : k \in 1..Len(rows)} :
        \A k \in 1..Len(rows) : rows[k][f] <= v

MinOf(rows, f) ==
    CHOOSE v \in {rows[k][f] : k \in 1..Len(rows)} :
        \A k \in 1..Len(rows) : rows[k][f] >= v

\* the date of the last row that holds the value, not of the first
DayOfLast(rows, f, v) ==
    LET hits == Mask(rows, [k \in 1..Len(rows) |-> rows[k][f] = v])
    IN  hits[Len(hits)].Date

\* df[df[f] == v]['Date'].values[0], lines 90-92: the date of the first row
\* of the frame that holds the value
DayOf(rows, f, v) == Mask(rows, [k \in 1..Len(rows) |-> rows[k][f] = v])[1].Date

NoExtremes == [none |-> TRUE]

find_extremes(rows) ==
    IF rows = <<>> THEN NoExtremes
    ELSE
      LET highest_temp_ == MaxOf(rows, "maxT")
          lowest_temp_  == MinOf(rows, "minT")
          most_humid_   == MaxOf(rows, "hum")
      IN  [none |-> FALSE,
           highest_temp |-> highest_temp_,
           highest_temp_day |-> DayOf(rows, "maxT", highest_temp_),
           lowest_temp |-> lowest_temp_,
           lowest_temp_day |-> DayOf(rows, "minT", lowest_temp_),
           most_humid |-> most_humid_,
           most_humid_day |-> DayOf(rows, "hum", most_humid_)]

\* Series.mean() of a frame that has rows
MeanOf(rows, f) == Rat(SumInts(Column(rows, f)), Len(rows))

\* a frame without rows gives three zero means
CalculateAveragesZero(rows) ==
    IF rows = <<>> THEN <<RatOfInt(0), RatOfInt(0), RatOfInt(0)>>
    ELSE <<MeanOf(rows, "maxT"), MeanOf(rows, "minT"), MeanOf(rows, "hum")>>

calculate_averages(rows) ==
    IF rows = <<>> THEN None
    ELSE <<MeanOf(rows, "maxT"), MeanOf(rows, "minT"), MeanOf(rows, "hum")>>

----------------------------------------------------------------------------
(* The running extremes of process_weather_files, lines 126-139.  A running *)
(* extreme is [value, day].                                                 *)

\* an equal file extreme replaces the running one too
MergeMaxOrEqual(best, current, current_day) ==
    IF ~FloatLt(Fin(current), best.value)
    THEN [value |-> Fin(current), day |-> current_day] ELSE best

\* lines 129-131 and 137-139: a strictly greater file extreme replaces the
\* running one
MergeMax(best, current, current_day) ==
    IF FloatGt(Fin(current), best.value)
    THEN [value |-> Fin(current), day |-> current_day] ELSE best

\* lines 133-135: a strictly smaller file extreme replaces the running one
MergeMin(best, current, current_day) ==
    IF FloatLt(Fin(current), best.value)
    THEN [value |-> Fin(current), day |-> current_day] ELSE best

\* lines 126-139 for one filtered frame; acc is
\* [highest, lowest, humid], each a running extreme
MergeExtremes(acc, rows) ==
    LET e == find_extremes(rows) IN
    IF e.none THEN acc
    ELSE [highest |-> MergeMax(acc.highest, e.highest_temp, e.highest_temp_day),
          lowest  |-> MergeMin(acc.lowest, e.lowest_temp, e.lowest_temp_day),
          humid   |-> MergeMax(acc.humid, e.most_humid, e.most_humid_day)]

\* lines 105-111
InitialExtremes ==
    [highest |-> [value |-> NegInf, day |-> <<>>],
     lowest  |-> [value |-> PosInf, day |-> <<>>],
     humid   |-> [value |-> NegInf, day |-> <<>>]]

RECURSIVE ExtremesOver(_, _, _, _)
\* the loop of lines 113-139 in year-wise mode over files that load and
\* filter without an exception: the running extremes after the last file
ExtremesOver(files, y, m, acc) ==
    IF files = <<>> THEN acc
    ELSE LET loaded == load_weather_data(Head(files))
             flt    == filter_by_year_and_month(loaded.df, y, m)
         IN  ExtremesOver(Tail(files), y, m,
                          IF IsEmpty(loaded.df) THEN acc
                          ELSE MergeExtremes(acc, flt.rows))

\* the truth value of `month` in lines 140 and 168: None and 0 are false
Truthy(m) == m # None /\ m[1] # 0

----------------------------------------------------------------------------
(* The report, lines 150-185, and plot_temperature_bars, lines 51-68.      *)

\* every metric tested against the sentinel of the maxima
ExtremeLineNegInf(best, sentinel, found, nodata) ==
    IF best.value # NegInf
    THEN [kind |-> found, value |-> best.value.v, day |-> best.day]
    ELSE [kind |-> nodata, year |-> year]

\* lines 152-165: one line per metric
ExtremeLine(best, sentinel, found, nodata) ==
    IF best.value # sentinel
    THEN [kind |-> found, value |-> best.value.v, day |-> best.day]
    ELSE [kind |-> nodata, year |-> year]

ExtremeReport(acc) ==
    << ExtremeLine(acc.highest, NegInf, "Highest", "NoDataHighest"),
       ExtremeLine(acc.lowest, PosInf, "Lowest", "NoDataLowest"),
       ExtremeLine(acc.humid, NegInf, "Humid", "NoDataHumid") >>

\* line 169
HaveAverages(hs, ls, us) == hs # <<>> /\ ls # <<>> /\ us # <<>>

\* lines 170-172
OverallAverages(hs, ls, us) == <<MeanOfRats(hs), MeanOfRats(ls), MeanOfRats(us)>>

\* '+' * int(v), lines 64-65: a negative count gives the empty bar
Bar(v) == IF v < 0 THEN 0 ELSE v

\* lines 58-68
ChartLines(rows) ==
    [k \in 1..Len(rows) |->
        [kind |-> "ChartRow", day |-> rows[k].Date[3],
         low_bar |-> Bar(rows[k].minT), low |-> rows[k].minT,
         high_bar |-> Bar(rows[k].maxT), high |-> rows[k].maxT]]

\* line 56: month_name()[0] looks the index LABEL 0 up in the combined
\* frame, which keeps each file's row labels: KeyError when no kept row was
\* the first row of its file, a Series of names when several were
plot_temperature_bars(rows) ==
    IF rows = <<>>
    THEN [raised |-> FALSE, printed |-> <<[kind |-> "NoDataMonth"]>>]
    ELSE
      LET first == Mask(rows, [k \in 1..Len(rows) |-> rows[k].idx = 0]) IN
      IF first = <<>> THEN [raised |-> TRUE, printed |-> <<>>]
      ELSE [raised |-> FALSE,
            printed |-> <<[kind |-> "ChartHeader",
                           months |-> [k \in 1..Len(first) |-> first[k].Date[2]],
                           year |-> rows[1].Date[1]]>> \o ChartLines(rows)]

----------------------------------------------------------------------------
(* process_weather_files, lines 97-185.                                    *)

\* lines 98-111: glob of a path that is no directory matches nothing
Glob ==
    /\ pc = "start"
    /\ txt_files' = IF pathKind = "dir" THEN fs ELSE <<>>
    /\ pos' = 1
    /\ all_data' = <<>>
    /\ all_highest_temps' = <<>>
    /\ all_lowest_temps' = <<>>
    /\ all_humidities' = <<>>
    /\ highest_temp' = InitialExtremes.highest.value
    /\ lowest_temp' = InitialExtremes.lowest.value
    /\ most_humid' = InitialExtremes.humid.value
    /\ highest_temp_day' = InitialExtremes.highest.day
    /\ lowest_temp_day' = InitialExtremes.lowest.day
    /\ most_humid_day' = InitialExtremes.humid.day
    /\ pc' = "loop"
    /\ UNCHANGED <<pathKind, fs, year, month, year_wise, chart, outcome, df,
                   df_filtered, overall_avg, output>>

Running ==
    [highest |-> [value |-> highest_temp, day |-> highest_temp_day],
     lowest  |-> [value |-> lowest_temp, day |-> lowest_temp_day],
     humid   |-> [value |-> most_humid, day |-> most_humid_day]]

\* an exception nothing catches ends the run where it is raised
Crash(printed) ==
    /\ outcome' = "error"
    /\ pc' = "done"
    /\ output' = output \o printed

\* one pass of the loop body, lines 113-148
ProcessFile ==
    /\ pc = "loop"
    /\ pos <= Len(txt_files)
    /\ LET file   == txt_files[pos]
           loaded == load_weather_data(file)
           flt    == filter_by_year_and_month(loaded.df, year, month)
           acc    == IF year_wise THEN MergeExtremes(Running, flt.rows) ELSE Running
           avgs   == IF ~year_wise /\ Truthy(month)
                     THEN calculate_averages(flt.rows) ELSE None
       IN
       IF loaded.raised
       THEN /\ Crash(loaded.printed)
            /\ UNCHANGED <<pos, df, df_filtered, all_data, all_highest_temps,
                           all_lowest_temps, all_humidities, highest_temp,
                           lowest_temp, most_humid, highest_temp_day,
                           lowest_temp_day, most_humid_day>>
       ELSE IF IsEmpty(loaded.df)
       THEN \* line 116: continue
            /\ df' = loaded.df
            /\ pos' = pos + 1
            /\ output' = output \o loaded.printed
            /\ UNCHANGED <<pc, outcome, df_filtered, all_data, all_highest_temps,
                           all_lowest_temps, all_humidities, highest_temp,
                           lowest_temp, most_humid, highest_temp_day,
                           lowest_temp_day, most_humid_day>>
       ELSE IF flt.raised
       THEN /\ Crash(loaded.printed \o flt.printed)
            /\ df' = loaded.df
            /\ UNCHANGED <<pos, df_filtered, all_data, all_highest_temps,
                           all_lowest_temps, all_humidities, highest_temp,
                           lowest_temp, most_humid, highest_temp_day,
                           lowest_temp_day, most_humid_day>>
       ELSE /\ df' = loaded.df
            /\ df_filtered' = flt.rows
            /\ output' = output \o loaded.printed \o flt.printed
            /\ all_data' = IF chart THEN Append(all_data, flt.rows) ELSE all_data
            /\ highest_temp' = acc.highest.value
            /\ highest_temp_day' = acc.highest.day
            /\ lowest_temp' = acc.lowest.value
            /\ lowest_temp_day' = acc.lowest.day
            /\ most_humid' = acc.humid.value
            /\ most_humid_day' = acc.humid.day
            /\ all_highest_temps' =
                 IF avgs # None THEN Append(all_highest_temps, avgs[1])
                 ELSE all_highest_temps
            /\ all_lowest_temps' =
                 IF avgs # None THEN Append(all_lowest_temps, avgs[2])
                 ELSE all_lowest_temps
            /\ all_humidities' =
                 IF avgs # None THEN Append(all_humidities, avgs[3])
                 ELSE all_humidities
            /\ pos' = pos + 1
            /\ UNCHANGED <<pc, outcome>>
    /\ UNCHANGED <<pathKind, fs, year, month, year_wise, chart, txt_files,
                   overall_avg>>

\* lines 151-165
ExtremeSection == IF year_wise THEN ExtremeReport(Running) ELSE <<>>

\* lines 168-178, given the tenths the three averages print with.  Lines 178
\* and 185 print the same text; the kind of the line tells them apart.
AverageSection(tenths) ==
    IF ~Truthy(month) THEN <<>>
    ELSE IF HaveAverages(all_highest_temps, all_lowest_temps, all_humidities)
    THEN << [kind |-> "HighestAverage", tenths |-> tenths[1]],
            [kind |-> "LowestAverage", tenths |-> tenths[2]],
            [kind |-> "AverageHumidity", tenths |-> tenths[3]] >>
    ELSE << [kind |-> "NoDataAvailableAverages", year |-> year, month |-> month] >>

\* lines 181-185
ChartSection ==
    IF chart /\ all_data # <<>> THEN plot_temperature_bars(Concat(all_data))
    ELSE IF chart
    THEN [raised |-> FALSE,
          printed |-> <<[kind |-> "NoDataAvailableChart", year |-> year,
                         month |-> month]>>]
    ELSE [raised |-> FALSE, printed |-> <<>>]

\* the loop is over: lines 150-185
Report ==
    /\ pc = "loop"
    /\ pos > Len(txt_files)
    /\ LET have == Truthy(month)
                   /\ HaveAverages(all_highest_temps, all_lowest_temps, all_humidities)
           avg  == IF have
                   THEN OverallAverages(all_highest_temps, all_lowest_temps, all_humidities)
                   ELSE None
       IN
       /\ overall_avg' = avg
       /\ \E t1 \in (IF have THEN Fmt1(avg[1]) ELSE {0}),
             t2 \in (IF have THEN Fmt1(avg[2]) ELSE {0}),
             t3 \in (IF have THEN Fmt1(avg[3]) ELSE {0}) :
            output' = output \o ExtremeSection \o AverageSection(<<t1, t2, t3>>)
                             \o ChartSection.printed
    /\ outcome' = IF ChartSection.raised THEN "error" ELSE "success"
    /\ pc' = "done"
    /\ UNCHANGED <<pathKind, fs, year, month, year_wise, chart, txt_files, pos,
                   df, df_filtered, all_data, all_highest_temps,
                   all_lowest_temps, all_humidities, highest_temp, lowest_temp,
                   most_humid, highest_temp_day, lowest_temp_day, most_humid_day>>

Next == Glob \/ ProcessFile \/ Report

----------------------------------------------------------------------------
(* The inputs: folders of files, bounded.                                  *)

\* the most *.txt files a folder holds
MaxFiles == 2

\* the most data rows a folder holds, over all its files
MaxRows == 3

\* the numeric cells hold 1..MaxTemp, or nothing
MaxTemp == 2

DateStr(y, m, d) == [t |-> "str", form |-> "ymd", y |-> y, m |-> m, d |-> d]

TextCell == [t |-> "str", form |-> "text", y |-> 0, m |-> 0, d |-> 0]

MissingCell == [t |-> "nan", form |-> "text", y |-> 0, m |-> 0, d |-> 0]

RawRow(dates, a, b, c) == [dates |-> dates, maxT |-> a, minT |-> b, hum |-> c]

\* a row of a file whose only date column is PKT
PktRow(cell, a, b, c) == RawRow([col \in {"PKT"} |-> cell], a, b, c)

CsvFile(columns, rows) == [kind |-> "csv", columns |-> columns, rows |-> rows]

FailingFile(kind) == [kind |-> kind, columns |-> {}, rows |-> <<>>]

\* the files of j rows: pool maps a set of date columns to the rows a file
\* with those columns may hold; extra are files without rows
FilesWith(j, pool, extra) ==
    UNION { {CsvFile(c, rows) : rows \in [1..j -> pool[c]]} : c \in DOMAIN pool }
    \cup (IF j = 0 THEN extra ELSE {})

RECURSIVE FoldersOf(_, _, _, _)
\* the folders of at most k files and at most r rows
FoldersOf(k, r, pool, extra) ==
    IF k = 0 THEN {<<>>}
    ELSE {<<>>} \cup
         UNION { { <<f>> \o rest : f \in FilesWith(j, pool, extra),
                                   rest \in FoldersOf(k - 1, r - j, pool, extra) }
                 : j \in 0..r }

InitWith(Paths, Folders, Years, Months, YearWise, Charts) ==
    /\ \E p \in Paths :
         /\ pathKind = p
         /\ fs \in (IF p = "dir" THEN Folders ELSE {<<>>})
    /\ year \in Years
    /\ month \in Months
    /\ year_wise \in YearWise
    /\ chart \in Charts
    /\ pc = "start"
    /\ outcome = "running"
    /\ txt_files = <<>>
    /\ pos = 1
    /\ df = EmptyDataFrame
    /\ df_filtered = <<>>
    /\ all_data = <<>>
    /\ all_highest_temps = <<>>
    /\ all_lowest_temps = <<>>
    /\ all_humidities = <<>>
    /\ highest_temp = InitialExtremes.highest.value
    /\ lowest_temp = InitialExtremes.lowest.value
    /\ most_humid = InitialExtremes.humid.value
    /\ highest_temp_day = InitialExtremes.highest.day
    /\ lowest_temp_day = InitialExtremes.lowest.day
    /\ most_humid_day = InitialExtremes.humid.day
    /\ overall_avg = None
    /\ output = <<>>

(* Spec: every flag combination, every kind of path and of file, few rows. *)

DriverPool ==
    [c \in {{"PKT"}, {}} |->
        IF c = {} THEN {RawRow(<<>>, <<1>>, <<1>>, <<1>>)}
        ELSE {PktRow(DateStr(2023, 6, 1), <<2>>, <<1>>, <<1>>),
              PktRow(DateStr(2023, 7, 2), <<1>>, <<1>>, <<2>>),
              PktRow(MissingCell, <<1>>, <<1>>, <<1>>)}]

DriverExtra ==
    {FailingFile("parser_error"), FailingFile("empty_file"),
     FailingFile("bad_encoding")}

Init ==
    InitWith({"dir", "missing", "not_dir"},
             FoldersOf(MaxFiles, MaxRows, DriverPool, DriverExtra),
             {2023}, {None, <<0>>, <<6>>}, BOOLEAN, BOOLEAN)

Spec == Init /\ [][Next]_vars

----------------------------------------------------------------------------
(* What the claims speak of, stated on the inputs and the printed lines,    *)
(* apart from the operators above.                                          *)

\* how many printed lines are of one of the kinds
CountLines(kinds) == Cardinality({i \in DOMAIN output : output[i].kind \in kinds})

KindCount(k) == CountLines({k})

\* the cell a row of the file holds in the file's date column
DateCellOf(file, row) ==
    IF "PKT" \in file.columns THEN row.dates["PKT"]
    ELSE IF "PKST" \in file.columns THEN row.dates["PKST"]
    ELSE row.dates["GST"]

HasDateColumn(file) == file.columns \cap {"PKT", "PKST", "GST"} # {}

\* the cell is the text of a calendar date
IsCalendarDate(c) ==
    /\ c.t = "str" /\ c.form = "ymd"
    /\ c.m >= 1 /\ c.m <= 12 /\ c.d >= 1
    /\ c.d <= (CASE c.m \in {1, 3, 5, 7, 8, 10, 12} -> 31
                 [] c.m \in {4, 6, 9, 11} -> 30
                 [] OTHER -> IF c.y % 4 = 0 /\ (c.y % 100 # 0 \/ c.y % 400 = 0)
                             THEN 29 ELSE 28)

\* the row is a record of the queried year and, when one is given, month
RowMatches(file, row) ==
    /\ file.kind = "csv"
    /\ HasDateColumn(file)
    /\ LET c == DateCellOf(file, row) IN
         /\ IsCalendarDate(c)
         /\ c.y = year
         /\ (month # None => c.m = month[1])

\* the positions of the file's rows that match the query
MatchingPositions(file) ==
    {k \in 1..Len(file.rows) : RowMatches(file, file.rows[k])}

NoRecordMatches == \A i \in 1..Len(txt_files) : MatchingPositions(txt_files[i]) = {}

\* the loop visited every file
AllVisited == pos > Len(txt_files)

\* a month of the calendar was asked for
MonthMode == month # None /\ month[1] \in 1..12

ExtremeKinds == {"Highest", "Lowest", "Humid"}

NoDataExtremeKinds == {"NoDataHighest", "NoDataLowest", "NoDataHumid"}

AverageKinds == {"HighestAverage", "LowestAverage", "AverageHumidity"}

ExtremesReported ==
    CountLines(ExtremeKinds \cup NoDataExtremeKinds) > 0

AveragesReported ==
    CountLines(AverageKinds \cup {"NoDataAvailableAverages"}) > 0

ChartReported ==
    CountLines({"ChartHeader", "ChartRow", "NoDataMonth", "NoDataAvailableChart"}) > 0

ReportsProduced ==
    (IF ExtremesReported THEN 1 ELSE 0) + (IF AveragesReported THEN 1 ELSE 0)
    + (IF ChartReported THEN 1 ELSE 0)

----------------------------------------------------------------------------
(* Claims about the driver, under Spec.                                    *)

\* C4: a file that fails to load, parse or filter never ends the run: when
\* the run is over every file of the folder has been visited and the report
\* step was reached.
C4_FailuresAbsorbed == pc = "done" => AllVisited

\* C5: whatever the flags, a run that ends well has printed exactly one
\* primary report: the extremes, the monthly averages (or their no data line)
\* or the chart, never two of them and never none.
C5_ExactlyOneReport ==
    (pc = "done" /\ outcome = "success") => ReportsProduced = 1

\* C6: when the path is missing or is no directory the run ends in a fatal
\* error and prints no report.
C6_InvalidDirectoryIsFatal ==
    (pc = "done" /\ pathKind # "dir") => (outcome = "error" /\ output = <<>>)

\* C7: when every file was processed and no record matches the query, each
\* requested report prints its no data message and nothing else (one line per
\* metric for the extremes, one for the averages, one for the chart), no
\* sentinel is printed, no average is computed, and the run ends well.
C7_NoDataReported ==
    (pc = "done" /\ AllVisited /\ NoRecordMatches) =>
        /\ outcome = "success"
        /\ overall_avg = None
        /\ CountLines(ExtremeKinds \cup AverageKinds \cup {"ChartHeader", "ChartRow"}) = 0
        /\ \A k \in NoDataExtremeKinds : KindCount(k) = (IF year_wise THEN 1 ELSE 0)
        /\ KindCount("NoDataAvailableAverages") = (IF MonthMode THEN 1 ELSE 0)
        /\ CountLines({"NoDataMonth", "NoDataAvailableChart"})
             = (IF chart THEN 1 ELSE 0)

\* C7's case: all three reports asked of a folder whose files hold rows, none
\* of which matches
C7_Witness ==
    /\ pc = "done" /\ AllVisited /\ NoRecordMatches
    /\ year_wise /\ chart /\ MonthMode
    /\ \E i \in 1..Len(txt_files) :
         txt_files[i].rows # <<>> /\ HasDateColumn(txt_files[i])

----------------------------------------------------------------------------
(* SpecFilter: one file of many kinds of date cell, for the claims about    *)
(* filter_by_year_and_month.                                                *)

FilterCells ==
    {DateStr(2023, 6, 1), DateStr(2024, 6, 30), DateStr(2024, 2, 29),
     DateStr(2024, 2, 30), DateStr(2023, 2, 29), DateStr(2023, 13, 1),
     TextCell, MissingCell}

FilterPool ==
    [c \in {{"PKT"}, {"PKST", "GST"}, {}} |->
        CASE c = {"PKT"} -> {PktRow(cell, <<1>>, <<1>>, <<1>>) : cell \in FilterCells}
          [] c = {} -> {RawRow(<<>>, <<1>>, <<1>>, <<1>>)}
          [] OTHER ->
               {RawRow([col \in c |-> IF col = "PKST" THEN a ELSE b], <<1>>, <<1>>, <<1>>) :
                  a \in {DateStr(2023, 6, 1), TextCell},
                  b \in {DateStr(2024, 2, 29), MissingCell}}]

InitFilter ==
    InitWith({"dir"}, FoldersOf(1, MaxRows, FilterPool, {}),
             {2023, 2024}, {None, <<2>>, <<6>>}, {FALSE}, {FALSE})

SpecFilter == InitFilter /\ [][Next]_vars

\* the file the loop visited last, when it has visited one
LastVisited == txt_files[pos - 1]

\* every date cell of the file's date column holds text
AllDatesText(file) ==
    \A k \in 1..Len(file.rows) : DateCellOf(file, file.rows[k]).t = "str"

\* the run ended on an exception raised while file i was in the loop body
FailedAt(i) == pc = "done" /\ outcome = "error" /\ pos = i

\* C3: the filter returns exactly the rows of its input whose date is of the
\* queried year and (when given) month, in the order of the input and
\* unchanged; an input without a match, and the empty input, give the empty
\* result and no error.
C3_FilterExact ==
    /\ (pos > 1 /\ LastVisited.kind = "csv" /\ LastVisited.rows # <<>>) =>
         LET file == LastVisited
             want == MatchingPositions(file)
         IN  /\ Len(df_filtered) = Cardinality(want)
             /\ \A k \in 1..Len(df_filtered) :
                  LET at == df_filtered[k].idx + 1 IN
                  /\ at \in want
                  /\ df_filtered[k].maxT = FillNum(file.rows[at].maxT)
                  /\ df_filtered[k].minT = FillNum(file.rows[at].minT)
                  /\ df_filtered[k].hum = FillNum(file.rows[at].hum)
                  /\ \A col \in file.columns :
                       df_filtered[k].dates[col] =
                         (IF file.rows[at].dates[col] = MissingCell
                          THEN [MissingCell EXCEPT !.t = "int"]
                          ELSE file.rows[at].dates[col])
                  /\ LET c == DateCellOf(file, file.rows[at])
                     IN  df_filtered[k].Date = <<c.y, c.m, c.d>>
             /\ \A k \in 1..(Len(df_filtered) - 1) :
                  df_filtered[k].idx < df_filtered[k + 1].idx
    /\ \A i \in 1..Len(txt_files) :
         (txt_files[i].kind = "csv" /\ HasDateColumn(txt_files[i])
          /\ AllDatesText(txt_files[i])) => ~FailedAt(i)
    /\ \A frame \in {EmptyDataFrame, [columns |-> {"PKT"}, rows |-> <<>>]} :
         LET r == filter_by_year_and_month(frame, year, month)
         IN  ~r.raised /\ r.rows = <<>>

\* C3's case: a month is given, and of three or more rows the filter kept
\* two that a dropped row stood between
C3_Witness ==
    /\ pos > 1 /\ month # None
    /\ Len(LastVisited.rows) >= 3
    /\ Len(df_filtered) >= 2
    /\ \E k \in 1..(Len(df_filtered) - 1) :
         df_filtered[k + 1].idx > df_filtered[k].idx + 1

\* C8: a row whose date is missing, fails the pattern or is no calendar date
\* is dropped and nothing else: the file it stands in is not failed, and every
\* row of the file that matches the query is in the filtered result.
C8_BadRowsDropped ==
    \A i \in 1..Len(txt_files) :
        LET file == txt_files[i] IN
        (file.kind = "csv" /\ HasDateColumn(file) /\ file.rows # <<>>) =>
            /\ ~FailedAt(i)
            /\ pos = i + 1 =>
                 {df_filtered[k].idx + 1 : k \in 1..Len(df_filtered)}
                     = MatchingPositions(file)

----------------------------------------------------------------------------
(* SpecAgg: folders of well formed files with differing readings, for the   *)
(* claims about the extremes and the averages.  A reading of level v has    *)
(* high v + 1, low v and humidity MaxTemp + 1 - v.                          *)

Reading(cell, v) == PktRow(cell, <<v + 1>>, <<v>>, <<MaxTemp + 1 - v>>)

AggPool ==
    [c \in {{"PKT"}} |->
        {Reading(DateStr(2023, 6, 1), v) : v \in 1..MaxTemp}
        \cup {Reading(DateStr(2023, 6, 2), 1),
              PktRow(DateStr(2023, 6, 3), NaN, NaN, NaN),
              Reading(DateStr(2024, 7, 1), MaxTemp)}]

InitAgg ==
    \E mode \in {<<TRUE, None>>, <<FALSE, <<6>>>>} :
        InitWith({"dir"}, FoldersOf(MaxFiles, MaxRows, AggPool, {}),
                 {2023}, {mode[2]}, {mode[1]}, {FALSE})

SpecAgg == InitAgg /\ [][Next]_vars

\* the value a numeric cell counts as: nothing counts as zero
CellValue(c) == IF c = <<>> THEN 0 ELSE c[1]

RECURSIVE MatchingFrom(_, _)
\* the matching rows of a file from position k on, in file order, as
\* [maxT, minT, hum, Date, absent]: absent holds the metrics whose cell is
\* empty
MatchingFrom(file, k) ==
    IF k > Len(file.rows) THEN <<>>
    ELSE LET r == file.rows[k]
             c == DateCellOf(file, r)
         IN  (IF RowMatches(file, r)
              THEN <<[maxT |-> CellValue(r.maxT), minT |-> CellValue(r.minT),
                      hum |-> CellValue(r.hum), Date |-> <<c.y, c.m, c.d>>,
                      absent |-> {f \in {"maxT", "minT", "hum"} : r[f] = <<>>}]>>
              ELSE <<>>) \o MatchingFrom(file, k + 1)

MatchingRows(file) == MatchingFrom(file, 1)

RECURSIVE StreamOf(_)
\* the matching rows of the files, file after file
StreamOf(files) ==
    IF files = <<>> THEN <<>>
    ELSE MatchingRows(Head(files)) \o StreamOf(Tail(files))

RECURSIVE ScanBest(_, _, _, _)
\* one pass over the rows: the first row seen is the best, and a later row
\* replaces it only when strictly better (sign 1: greater, sign -1: smaller)
ScanBest(rows, f, sign, best) ==
    IF rows = <<>> THEN best
    ELSE LET r == Head(rows)
             better == best = <<>> \/ sign * r[f] > sign * best[1]
         IN  ScanBest(Tail(rows), f, sign, IF better THEN <<r[f], r.Date>> ELSE best)

\* a running extreme against the result of a single pass
SameAsPass(value, day, best) ==
    IF best = <<>> THEN value.inf # 0 /\ day = <<>>
    ELSE value = Fin(best[1]) /\ day = best[2]

ExtremeRunDone == pc = "done" /\ outcome = "success" /\ year_wise

\* C9: the extremes folded file by file are those of one first-seen-wins
\* pass with strict comparison over all the files' filtered rows in
\* processing order, value and date; and the date reported is that of a
\* filtered row that holds the value reported.
C9_FoldEqualsSinglePass ==
    ExtremeRunDone =>
        LET stream == StreamOf(txt_files) IN
        /\ SameAsPass(highest_temp, highest_temp_day, ScanBest(stream, "maxT", 1, <<>>))
        /\ SameAsPass(lowest_temp, lowest_temp_day, ScanBest(stream, "minT", -1, <<>>))
        /\ SameAsPass(most_humid, most_humid_day, ScanBest(stream, "hum", 1, <<>>))
        /\ stream # <<>> =>
             /\ \E k \in 1..Len(stream) :
                  stream[k].Date = highest_temp_day /\ Fin(stream[k].maxT) = highest_temp
             /\ \E k \in 1..Len(stream) :
                  stream[k].Date = lowest_temp_day /\ Fin(stream[k].minT) = lowest_temp
             /\ \E k \in 1..Len(stream) :
                  stream[k].Date = most_humid_day /\ Fin(stream[k].hum) = most_humid
        /\ \A l \in 1..Len(output) :
             /\ output[l].kind = "Highest" =>
                  Fin(output[l].value) = highest_temp /\ output[l].day = highest_temp_day
             /\ output[l].kind = "Lowest" =>
                  Fin(output[l].value) = lowest_temp /\ output[l].day = lowest_temp_day
             /\ output[l].kind = "Humid" =>
                  Fin(output[l].value) = most_humid /\ output[l].day = most_humid_day
        /\ \A k \in ExtremeKinds :
             KindCount(k) = (IF stream # <<>> THEN 1 ELSE 0)

\* C9's case: the highest temperature is held by two rows of one file and by
\* a row of a later file, on three dates
C9_Witness ==
    /\ ExtremeRunDone
    /\ Len(txt_files) >= 2
    /\ \E i, j \in 1..Len(txt_files) :
         /\ i < j
         /\ \E a, b \in 1..Len(MatchingRows(txt_files[i])) :
              /\ a < b
              /\ Fin(MatchingRows(txt_files[i])[a].maxT) = highest_temp
              /\ Fin(MatchingRows(txt_files[i])[b].maxT) = highest_temp
              /\ MatchingRows(txt_files[i])[a].Date # MatchingRows(txt_files[i])[b].Date
         /\ \E c \in 1..Len(MatchingRows(txt_files[j])) :
              Fin(MatchingRows(txt_files[j])[c].maxT) = highest_temp

\* the orders the files can be visited in
Perms(n) == {p \in [1..n -> 1..n] : \A i, j \in 1..n : p[i] = p[j] => i = j}

Permuted(files, p) == [k \in 1..Len(files) |-> files[p[k]]]

\* the extreme of one file's matching rows: <<value, date>>, or <<>>
LocalBest(file, f, sign) == ScanBest(MatchingRows(file), f, sign, <<>>)

RECURSIVE LocalBests(_, _, _)
\* the extreme of each file of the sequence
LocalBests(files, f, sign) ==
    IF files = <<>> THEN <<>>
    ELSE <<LocalBest(Head(files), f, sign)>> \o LocalBests(Tail(files), f, sign)

\* file i attains value v, given the files' extremes
Attains(bests, i, v) == bests[i] # <<>> /\ bests[i][1] = v

\* the date on which the first file visited that attains value v holds it,
\* when the files are visited in the order p
FirstAttainerDay(bests, p, v) ==
    LET k == CHOOSE k \in 1..Len(bests) :
                /\ Attains(bests, p[k], v)
                /\ \A j \in 1..(k - 1) : ~Attains(bests, p[j], v)
    IN  bests[p[k]][2]

\* every file that attains value v holds it on the same date
AttainersAgree(bests, v) ==
    \A i, j \in 1..Len(bests) :
        (Attains(bests, i, v) /\ Attains(bests, j, v)) => bests[i][2] = bests[j][2]

\* C2 as claimed: whatever the order the files are visited in, the final
\* extremes and their dates are the same, ties on different dates included.
C2_OrderIndependent ==
    ExtremeRunDone =>
        \A p \in Perms(Len(txt_files)) :
            ExtremesOver(Permuted(txt_files, p), year, month, InitialExtremes) = Running

\* one metric of C2 as amended: run is the running extreme after the visit in
\* the order p, value and day the one of the run that took place
SameUpToTies(run, value, day, bests, p) ==
    /\ run.value = value
    /\ value.inf = 0 =>
         /\ run.day = FirstAttainerDay(bests, p, value.v)
         /\ AttainersAgree(bests, value.v) => run.day = day

\* C2 as amended: whatever the order the files are visited in, the final
\* extreme values are the same, and each date is the one the first file
\* visited that attains the value holds it on; so the dates are the same too
\* unless two files attain the value on different dates.
C2_OrderIndependentUpToTies ==
    ExtremeRunDone =>
        LET highs  == LocalBests(txt_files, "maxT", 1)
            lows   == LocalBests(txt_files, "minT", -1)
            humids == LocalBests(txt_files, "hum", 1)
        IN  \A p \in Perms(Len(txt_files)) :
              LET run == ExtremesOver(Permuted(txt_files, p), year, month,
                                      InitialExtremes)
              IN  /\ SameUpToTies(run.highest, highest_temp, highest_temp_day, highs, p)
                  /\ SameUpToTies(run.lowest, lowest_temp, lowest_temp_day, lows, p)
                  /\ SameUpToTies(run.humid, most_humid, most_humid_day, humids, p)
                  /\ (\A i \in 1..Len(txt_files) : p[i] = i) => run = Running

\* C2's case: two files attain the highest temperature on different dates
C2_Witness ==
    /\ ExtremeRunDone
    /\ highest_temp.inf = 0
    /\ ~AttainersAgree(LocalBests(txt_files, "maxT", 1), highest_temp.v)

----------------------------------------------------------------------------
(* The averages.                                                           *)

AverageRunDone == pc = "done" /\ outcome = "success" /\ ~year_wise /\ MonthMode

\* the files with a row that matches the query, in processing order
Contributing ==
    TrueIdx([i \in 1..Len(txt_files) |-> MatchingRows(txt_files[i]) # <<>>], 1)

\* the mean of one metric over the matching rows of a file
FileMean(file, f) ==
    LET rows == MatchingRows(file)
    IN  Rat(SumInts([k \in 1..Len(rows) |-> rows[k][f]]), Len(rows))

RECURSIVE FileMeans(_, _)
\* the mean of the metric in each file that has matching rows
FileMeans(files, f) ==
    IF files = <<>> THEN <<>>
    ELSE (IF MatchingRows(Head(files)) # <<>>
          THEN <<FileMean(Head(files), f)>> ELSE <<>>) \o FileMeans(Tail(files), f)

\* the mean, over the contributing files, of the files' means
MeanOfFileMeans(f) ==
    LET means == FileMeans(txt_files, f)
    IN  RatDivInt(SumRats(means), Len(means))

\* the mean over all the matching rows of all the files
RowWeightedMean(f) ==
    LET rows == StreamOf(txt_files)
    IN  Rat(SumInts([k \in 1..Len(rows) |-> rows[k][f]]), Len(rows))

\* t tenths is the value q rounded to one decimal
RoundsTo(q, t) ==
    LET diff == 20 * q[1] - 2 * t * q[2] IN diff <= q[2] /\ -diff <= q[2]

\* C1: in average mode each average reported is the mean of the per-file
\* means over exactly the files with a matching row (a file without one adds
\* no entry), printed to one decimal; without such a file the no data line
\* is printed instead.
C1_MeanOfFileMeans ==
    AverageRunDone =>
        LET n == Len(Contributing) IN
        IF n = 0
        THEN /\ overall_avg = None
             /\ CountLines(AverageKinds) = 0
             /\ KindCount("NoDataAvailableAverages") = 1
        ELSE LET high == MeanOfFileMeans("maxT")
                 low  == MeanOfFileMeans("minT")
                 hum  == MeanOfFileMeans("hum")
             IN  /\ Len(all_highest_temps) = n
                 /\ Len(all_lowest_temps) = n
                 /\ Len(all_humidities) = n
                 /\ overall_avg = <<high, low, hum>>
                 /\ \A k \in AverageKinds : KindCount(k) = 1
                 /\ KindCount("NoDataAvailableAverages") = 0
                 /\ \A l \in 1..Len(output) :
                      /\ output[l].kind = "HighestAverage" =>
                           RoundsTo(high, output[l].tenths)
                      /\ output[l].kind = "LowestAverage" =>
                           RoundsTo(low, output[l].tenths)
                      /\ output[l].kind = "AverageHumidity" =>
                           RoundsTo(hum, output[l].tenths)

\* C1's case: two files of different row counts contribute, and the mean of
\* their means is not the mean over their rows
C1_Witness ==
    /\ AverageRunDone
    /\ Len(Contributing) = 2
    /\ Len(MatchingRows(txt_files[Contributing[1]]))
         # Len(MatchingRows(txt_files[Contributing[2]]))
    /\ overall_avg # None
    /\ overall_avg[1] # RowWeightedMean("maxT")

----------------------------------------------------------------------------
(* Missing numeric fields.                                                 *)

\* the positions, in the stream of matching rows, of the rows whose cell of
\* metric f is empty
AbsentIn(stream, f) ==
    TrueIdx([k \in 1..Len(stream) |-> f \in stream[k].absent], 1)

\* the sum of the cells of metric f that are not empty, over the rows
PresentSum(rows, f) ==
    SumInts([k \in 1..Len(rows) |-> IF f \in rows[k].absent THEN 0 ELSE rows[k][f]])

RECURSIVE PresentMeans(_, _)
\* for each file that has matching rows: the sum of the cells of metric f
\* present in them, over the number of all of them
PresentMeans(files, f) ==
    IF files = <<>> THEN <<>>
    ELSE LET rows == MatchingRows(Head(files))
         IN  (IF rows # <<>> THEN <<Rat(PresentSum(rows, f), Len(rows))>> ELSE <<>>)
             \o PresentMeans(Tail(files), f)

\* C10: an empty numeric cell of a matching row counts as 0 in both modes.
\* In extreme mode it takes part in the comparisons: with an empty low
\* temperature the lowest reported is at most 0, and is 0 on the date of the
\* first such row when every low temperature present is positive (and so for
\* the two maxima, which are at least 0).  In average mode each file's mean
\* is the sum of the cells present over the number of ALL its matching rows.
C10_MissingCountsAsZero ==
    /\ ExtremeRunDone =>
         LET stream == StreamOf(txt_files)
             noLow  == AbsentIn(stream, "minT")
         IN  /\ noLow # <<>> =>
                  /\ lowest_temp.inf = 0 /\ lowest_temp.v <= 0
                  /\ (\A k \in 1..Len(stream) :
                         "minT" \in stream[k].absent \/ stream[k].minT > 0) =>
                       /\ lowest_temp = Fin(0)
                       /\ lowest_temp_day = stream[noLow[1]].Date
             /\ AbsentIn(stream, "maxT") # <<>> =>
                  highest_temp.inf = 0 /\ highest_temp.v >= 0
             /\ AbsentIn(stream, "hum") # <<>> =>
                  most_humid.inf = 0 /\ most_humid.v >= 0
    /\ AverageRunDone =>
         /\ all_highest_temps = PresentMeans(txt_files, "maxT")
         /\ all_lowest_temps = PresentMeans(txt_files, "minT")
         /\ all_humidities = PresentMeans(txt_files, "hum")

\* C10's case: a matching row without a low temperature, after a row with a
\* positive one, makes the lowest 0 on its date
C10_Witness ==
    /\ ExtremeRunDone
    /\ AbsentIn(StreamOf(txt_files), "minT") # <<>>
    /\ AbsentIn(StreamOf(txt_files), "minT")[1] > 1
    /\ lowest_temp = Fin(0)
    /\ lowest_temp_day =
         StreamOf(txt_files)[AbsentIn(StreamOf(txt_files), "minT")[1]].Date

====
